---------------------------- MODULE Spec2Model ----------------------------
(***************************************************************************)
(* Model of src/python/fix_comments.py: the COMM-frame cleanup             *)
(* (fix_comment_fields), its batch driver (batch_fix) and the command-line *)
(* entry point (__main__).                                                 *)
(*                                                                         *)
(* The tagging library (mutagen.id3.ID3) is the external collaborator: a   *)
(* loaded tag set is an ordered collection of (key, frame) pairs, load     *)
(* raises on a missing / unreadable / tag-less file, save either writes    *)
(* the in-memory collection to the file or raises leaving the file as it   *)
(* was.                                                                    *)
(***************************************************************************)
EXTENDS Integers, Sequences, FiniteSets, TLC

(***************************************************************************)
(* Bounds of the model.                                                    *)
(***************************************************************************)
NumFiles == 3      \* mp3 files found under the directory
MaxArgs  == 3      \* command-line arguments after the script name
MaxRuns  == 2      \* consecutive invocations of the script

Files == 1..NumFiles

(***************************************************************************)
(* Frames.  A frame is a record; COMM and USLT frames carry desc, lang and *)
(* text, a TIT2 frame carries text only.                                   *)
(***************************************************************************)
Frames ==
  << [id |-> "COMM", desc |-> "Songs-DB_Custom1", lang |-> "XXX", text |-> <<"keep me">>],
     [id |-> "COMM", desc |-> "ID3v1 Comment",    lang |-> "eng", text |-> <<"legacy">>],
     [id |-> "COMM", desc |-> "",                 lang |-> "XXX", text |-> <<"0000 0A1B">>],
     [id |-> "COMM", desc |-> "",                 lang |-> "eng", text |-> <<"dup">>],
     [id |-> "COMM", desc |-> "ID3v1 Comment",    lang |-> "deu", text |-> <<>>],
     [id |-> "USLT", desc |-> "",                 lang |-> "XXX", text |-> <<"la la">>],
     [id |-> "TIT2", text |-> <<"Title">>],
     [id |-> "COMM", desc |-> "Songs-DB_Custom1", lang |-> "eng", text |-> <<"other">>] >>

\* The key under which the library files a frame: "COMM:desc:lang" for
\* COMM (and USLT) frames, the bare frame id for a text frame.
HashKey(frame) ==
  IF frame.id \in {"COMM", "USLT"}
    THEN <<frame.id, frame.desc, frame.lang>>
    ELSE <<frame.id>>

\* Faulty variant: the frame-type filter is missing.
StartsWithAny(key) == TRUE

\* key.startswith('COMM')
StartsWithCOMM(key) == key[1] = "COMM"

\* value.desc if hasattr(value, 'desc') else ''
Desc(value) == IF "desc" \in DOMAIN value THEN value.desc ELSE ""

\* value.lang if hasattr(value, 'lang') else ''
Lang(value) == IF "lang" \in DOMAIN value THEN value.lang ELSE ""

\* value.text[0] if hasattr(value, 'text') and value.text else ''
Text(value) ==
  IF "text" \in DOMAIN value /\ value.text # <<>> THEN value.text[1] ELSE ""


(***************************************************************************)
(* Faulty variants of the classification, used to show that the properties *)
(* below depend on it.                                                     *)
(***************************************************************************)
\* the removal rules tested before the keep rule, rule 3 on language alone
ClassifyRemoveFirst(desc, lang) ==
  IF desc = "ID3v1 Comment" /\ lang = "eng" THEN "remove"
  ELSE IF lang = "XXX" THEN "remove"
  ELSE IF desc = "Songs-DB_Custom1" THEN "keep"
  ELSE "other"

\* rule 2 without its language test
ClassifyNoLang(desc, lang) ==
  IF desc = "Songs-DB_Custom1" THEN "keep"
  ELSE IF desc = "ID3v1 Comment" THEN "remove"
  ELSE IF desc = "" /\ lang = "XXX" THEN "remove"
  ELSE "other"

\* rule 3 without its language test: every empty-description comment goes
ClassifyAnyLang(desc, lang) ==
  IF desc = "Songs-DB_Custom1" THEN "keep"
  ELSE IF desc = "ID3v1 Comment" /\ lang = "eng" THEN "remove"
  ELSE IF desc = "" THEN "remove"
  ELSE "other"

(***************************************************************************)
(* fix_comment_fields: classification of one COMM frame (the if / elif     *)
(* chain of the identification loop).                                      *)
(***************************************************************************)
Classify(desc, lang) ==
  IF desc = "Songs-DB_Custom1" THEN "keep"
  ELSE IF desc = "ID3v1 Comment" /\ lang = "eng" THEN "remove"
  ELSE IF desc = "" /\ lang = "XXX" THEN "remove"
  ELSE "other"

\* The identification loop: to_remove is the list of keys of the COMM frames
\* classified remove, in the iteration order of audio.items().
RECURSIVE ToRemove(_)
ToRemove(items) ==
  IF items = <<>> THEN <<>>
  ELSE LET value == Head(items)
           key   == HashKey(value)
       IN  (IF StartsWithCOMM(key) /\ Classify(Desc(value), Lang(value)) = "remove"
              THEN <<key>> ELSE <<>>)
           \o ToRemove(Tail(items))

\* del audio[key]
DelItem(audio, key) ==
  LET Other(value) == HashKey(value) # key
  IN  SelectSeq(audio, Other)

\* Faulty variant: only the first key of to_remove is deleted.
DeleteFirstOnly(audio, to_remove) ==
  IF to_remove = <<>> THEN audio ELSE DelItem(audio, Head(to_remove))

\* for key in to_remove: del audio[key]
RECURSIVE DeleteAll(_, _)
DeleteAll(audio, to_remove) ==
  IF to_remove = <<>> THEN audio
  ELSE DeleteAll(DelItem(audio, Head(to_remove)), Tail(to_remove))

\* Faulty variant: the early return is never taken.
NothingToRemoveNever(to_remove) == FALSE

\* if not to_remove: ... return
NothingToRemove(to_remove) == to_remove = <<>>

\* audio.save(): the file's tag set becomes the in-memory one, or the save
\* raises and the file keeps what it had.
Save(ondisk, audio, save_ok) == IF save_ok THEN audio ELSE ondisk

(***************************************************************************)
(* fix_comment_fields(filepath, dry_run) on a file whose on-disk tag set   *)
(* is ondisk.  loadable: ID3(filepath) does not raise.  save_ok:           *)
(* audio.save() does not raise.  The result gives the file's tag set       *)
(* afterwards, the to_remove list, whether save was called and the message *)
(* the call ends with:                                                     *)
(*   "error"    Error: ... (the except branch)                             *)
(*   "ok"       No problematic comment fields found. File is OK!           *)
(*   "dry_run"  DRY RUN - No changes made                                  *)
(*   "applied"  CHANGES APPLIED ... File fixed successfully!               *)
(* custom1_value is assigned and never read; it is left out.               *)
(***************************************************************************)
fix_comment_fields(ondisk, loadable, dry_run, save_ok) ==
  IF ~loadable
    THEN [disk |-> ondisk, to_remove |-> <<>>, saved |-> FALSE, outcome |-> "error"]
  ELSE
    LET audio     == ondisk
        to_remove == ToRemove(audio)
    IN  IF NothingToRemove(to_remove)
          THEN [disk |-> ondisk, to_remove |-> to_remove, saved |-> FALSE,
                outcome |-> "ok"]
        ELSE IF dry_run
          THEN [disk |-> ondisk, to_remove |-> to_remove, saved |-> FALSE,
                outcome |-> "dry_run"]
        ELSE [disk      |-> Save(ondisk, DeleteAll(audio, to_remove), save_ok),
              to_remove |-> to_remove,
              saved     |-> TRUE,
              outcome   |-> IF save_ok THEN "applied" ELSE "error"]

(***************************************************************************)
(* batch_fix: the per-file scan.                                           *)
(***************************************************************************)
RECURSIVE HasProblem(_)
HasProblem(items) ==
  IF items = <<>> THEN FALSE
  ELSE LET value == Head(items)
           key   == HashKey(value)
           desc  == Desc(value)
           lang  == Lang(value)
       IN  \/ /\ StartsWithCOMM(key)
              /\ desc # "Songs-DB_Custom1"
              /\ ((desc = "ID3v1 Comment" /\ lang = "eng") \/ (desc = "" /\ lang = "XXX"))
           \/ HasProblem(Tail(items))

\* Faulty variant: the except branch re-raises instead of continuing.
batch_iteration_reraise(ondisk, loadable, dry_run, save_ok, count) ==
  IF ~loadable
    THEN [disk |-> ondisk, to_remove |-> <<>>, saved |-> FALSE,
          outcome |-> "skipped", fixed_count |-> count, raised |-> TRUE]
  ELSE IF HasProblem(ondisk)
    THEN LET r == fix_comment_fields(ondisk, loadable, dry_run, save_ok)
         IN  [disk |-> r.disk, to_remove |-> r.to_remove, saved |-> r.saved,
              outcome |-> r.outcome, fixed_count |-> count + 1, raised |-> FALSE]
  ELSE [disk |-> ondisk, to_remove |-> <<>>, saved |-> FALSE,
        outcome |-> "no_problem", fixed_count |-> count, raised |-> FALSE]

\* Faulty variant: fixed_count counts every file that loads.
batch_iteration_count_loaded(ondisk, loadable, dry_run, save_ok, count) ==
  IF ~loadable
    THEN [disk |-> ondisk, to_remove |-> <<>>, saved |-> FALSE,
          outcome |-> "skipped", fixed_count |-> count, raised |-> FALSE]
  ELSE IF HasProblem(ondisk)
    THEN LET r == fix_comment_fields(ondisk, loadable, dry_run, save_ok)
         IN  [disk |-> r.disk, to_remove |-> r.to_remove, saved |-> r.saved,
              outcome |-> r.outcome, fixed_count |-> count + 1, raised |-> FALSE]
  ELSE [disk |-> ondisk, to_remove |-> <<>>, saved |-> FALSE,
        outcome |-> "no_problem", fixed_count |-> count + 1, raised |-> FALSE]

\* One iteration of the for loop of batch_fix, try / except included.
\* raised: an exception left the loop body (the bare except lets none out).
batch_iteration(ondisk, loadable, dry_run, save_ok, count) ==
  IF ~loadable
    THEN [disk |-> ondisk, to_remove |-> <<>>, saved |-> FALSE,
          outcome |-> "skipped", fixed_count |-> count, raised |-> FALSE]
  ELSE IF HasProblem(ondisk)
    THEN LET r == fix_comment_fields(ondisk, loadable, dry_run, save_ok)
         IN  [disk |-> r.disk, to_remove |-> r.to_remove, saved |-> r.saved,
              outcome |-> r.outcome, fixed_count |-> count + 1, raised |-> FALSE]
  ELSE [disk |-> ondisk, to_remove |-> <<>>, saved |-> FALSE,
        outcome |-> "no_problem", fixed_count |-> count, raised |-> FALSE]

\* glob.glob(directory/**/*.mp3, recursive=True): the files live under ".".
Glob(directory) == IF directory = "." THEN [i \in 1..NumFiles |-> i] ELSE <<>>

(***************************************************************************)
(* __main__: the command line.  argv[1] is the script name, so sys.argv[k] *)
(* is argv[k + 1].                                                         *)
(***************************************************************************)
Tokens == {"--apply", "--batch", "song.mp3", "."}

\* x in sys.argv
InArgv(av, x) == \E i \in 1..Len(av) : av[i] = x

\* Faulty variant: the flag is read the wrong way round.
DryRunInverted(av) == InArgv(av, "--apply")

\* dry_run = not ('--apply' in sys.argv)
DryRun(av) == ~InArgv(av, "--apply")

\* sys.argv.index('--batch'), 0-based
BatchIdx(av) == (CHOOSE i \in 1..Len(av) : av[i] = "--batch" /\ \A j \in 1..(i-1) : av[j] # "--batch") - 1

\* batch_idx + 1 < len(sys.argv)
HasDirectory(av) == BatchIdx(av) + 1 < Len(av)

\* The file a path names, if any: "song.mp3" is file 1.
FileAt(path) == IF path = "song.mp3" THEN {1} ELSE {}

(***************************************************************************)
(* State.                                                                  *)
(***************************************************************************)
VARIABLES
  argv,          \* sys.argv of the invocation
  disk,          \* disk[f]: the tag set stored in file f
  corrupt,       \* the files on which ID3(filepath) raises
  pc,            \* "main", "batch_loop" or "exited"
  exit_status,   \* -1 while the process runs, then its exit status
  files,         \* batch_fix: the list glob returned
  idx,           \* batch_fix: position of the for loop in files
  fixed_count,   \* batch_fix: fixed_count
  summary,       \* the number the SUMMARY line printed, -1 before it
  to_remove,     \* to_remove[f]: the to_remove list of the call on file f
  outcome,       \* outcome[f]: the message the processing of f ended with
  saved,         \* the files on which audio.save() was called in this run
  run,           \* number of the current invocation
  disk0,         \* disk as it was when the current invocation started
  prev_outcome   \* outcome of the previous invocation

vars == <<argv, disk, corrupt, pc, exit_status, files, idx, fixed_count,
          summary, to_remove, outcome, saved, run, disk0, prev_outcome>>

(***************************************************************************)
(* Initial states: the tag sets and command lines the model draws from.    *)
(***************************************************************************)
\* The tag set holding the frames of Frames with index in S, in that order.
RECURSIVE Pick(_, _)
Pick(S, n) ==
  IF n = 0 THEN <<>>
  ELSE Pick(S, n - 1) \o (IF n \in S THEN <<Frames[n]>> ELSE <<>>)

TagSetOf(S) == Pick(S, Len(Frames))

AllTagSets == {TagSetOf(S) : S \in SUBSET (1..Len(Frames))}

\* {COMM::eng, COMM:ID3v1 Comment:eng, COMM:Songs-DB_Custom1:XXX}
ScenarioTags == TagSetOf({1, 2, 4})

BatchTagSets == {ScenarioTags, TagSetOf({3, 7}), TagSetOf({4, 5, 6})}

\* Nothing can be read from a file on which the load raises.
Unreadable == <<>>

RECURSIVE SeqsUpTo(_, _)
SeqsUpTo(S, n) ==
  IF n = 0 THEN {<<>>}
  ELSE LET shorter == SeqsUpTo(S, n - 1)
       IN  shorter \cup {Append(q, x) : q \in shorter, x \in S}

Script == "fix_comments.py"

\* One file with any tag set, named on the command line.
InitSingle ==
  /\ argv \in {<<Script, "song.mp3">>, <<Script, "song.mp3", "--apply">>}
  /\ \/ /\ corrupt = {}
        /\ \E t \in AllTagSets :
             disk = [f \in Files |-> IF f = 1 THEN t ELSE TagSetOf({})]
     \/ /\ corrupt = {1}
        /\ disk = [f \in Files |-> IF f = 1 THEN Unreadable ELSE TagSetOf({})]

\* A directory of files, each with one of the batch tag sets.
InitBatch ==
  /\ argv \in {<<Script, "--batch", ".">>, <<Script, "--batch", ".", "--apply">>}
  /\ corrupt \in SUBSET Files
  /\ \E d \in [Files -> BatchTagSets] :
       disk = [f \in Files |-> IF f \in corrupt THEN Unreadable ELSE d[f]]

\* Any command line, over a first file that holds the scenario's tag set.
InitCli ==
  /\ argv \in {<<Script>> \o q : q \in SeqsUpTo(Tokens, MaxArgs)}
  /\ disk = [f \in Files |-> IF f = 1 THEN ScenarioTags ELSE TagSetOf({4, 5, 6})]
  /\ corrupt = {}

Init ==
  /\ InitSingle \/ InitBatch \/ InitCli
  /\ pc = "main"
  /\ exit_status = -1
  /\ files = <<>>
  /\ idx = 1
  /\ fixed_count = 0
  /\ summary = -1
  /\ to_remove = [f \in Files |-> <<>>]
  /\ outcome = [f \in Files |-> "none"]
  /\ saved = {}
  /\ run = 1
  /\ disk0 = disk
  /\ prev_outcome = [f \in Files |-> "none"]

(***************************************************************************)
(* Actions.                                                                *)
(***************************************************************************)
\* len(sys.argv) < 2: usage text, sys.exit(1)
MainUsage ==
  /\ pc = "main"
  /\ Len(argv) < 2
  /\ pc' = "exited"
  /\ exit_status' = 1
  /\ UNCHANGED <<argv, disk, corrupt, files, idx, fixed_count, summary,
                 to_remove, outcome, saved, run, disk0, prev_outcome>>

\* '--batch' in sys.argv and a directory follows: batch_fix up to its loop
MainBatch ==
  /\ pc = "main"
  /\ Len(argv) >= 2
  /\ InArgv(argv, "--batch")
  /\ HasDirectory(argv)
  /\ files' = Glob(argv[(BatchIdx(argv) + 1) + 1])
  /\ idx' = 1
  /\ fixed_count' = 0
  /\ pc' = "batch_loop"
  /\ UNCHANGED <<argv, disk, corrupt, exit_status, summary, to_remove,
                 outcome, saved, run, disk0, prev_outcome>>

\* '--batch' is the last argument: "Error: --batch requires a directory
\* path" is printed and the script runs off its end
MainBatchNoDirectory ==
  /\ pc = "main"
  /\ Len(argv) >= 2
  /\ InArgv(argv, "--batch")
  /\ ~HasDirectory(argv)
  /\ pc' = "exited"
  /\ exit_status' = 0
  /\ UNCHANGED <<argv, disk, corrupt, files, idx, fixed_count, summary,
                 to_remove, outcome, saved, run, disk0, prev_outcome>>

\* single-file mode: fix_comment_fields(sys.argv[1], dry_run)
MainSingle ==
  /\ pc = "main"
  /\ Len(argv) >= 2
  /\ ~InArgv(argv, "--batch")
  /\ \E save_ok \in BOOLEAN :
       LET filepath == argv[1 + 1]
       IN  IF FileAt(filepath) = {}
             THEN UNCHANGED <<disk, to_remove, outcome, saved>>
             ELSE LET f == CHOOSE x \in FileAt(filepath) : TRUE
                      r == fix_comment_fields(disk[f], f \notin corrupt,
                                              DryRun(argv), save_ok)
                  IN  /\ disk' = [disk EXCEPT ![f] = r.disk]
                      /\ to_remove' = [to_remove EXCEPT ![f] = r.to_remove]
                      /\ outcome' = [outcome EXCEPT ![f] = r.outcome]
                      /\ saved' = IF r.saved THEN saved \cup {f} ELSE saved
  /\ pc' = "exited"
  /\ exit_status' = 0
  /\ UNCHANGED <<argv, corrupt, files, idx, fixed_count, summary, run, disk0,
                 prev_outcome>>

\* batch_fix: one iteration of "for filepath in files"
BatchIteration ==
  /\ pc = "batch_loop"
  /\ idx <= Len(files)
  /\ \E save_ok \in BOOLEAN :
       LET f == files[idx]
           r == batch_iteration(disk[f], f \notin corrupt, DryRun(argv),
                                save_ok, fixed_count)
       IN  /\ disk' = [disk EXCEPT ![f] = r.disk]
           /\ to_remove' = [to_remove EXCEPT ![f] = r.to_remove]
           /\ outcome' = [outcome EXCEPT ![f] = r.outcome]
           /\ saved' = IF r.saved THEN saved \cup {f} ELSE saved
           /\ fixed_count' = r.fixed_count
           /\ IF r.raised
                THEN \* an uncaught exception ends the process with status 1
                     /\ pc' = "exited"
                     /\ exit_status' = 1
                     /\ idx' = idx
                ELSE /\ pc' = pc
                     /\ exit_status' = exit_status
                     /\ idx' = idx + 1
  /\ UNCHANGED <<argv, corrupt, files, summary, run, disk0, prev_outcome>>

\* batch_fix: the loop is over, the SUMMARY line is printed, the script ends
BatchSummary ==
  /\ pc = "batch_loop"
  /\ idx > Len(files)
  /\ summary' = fixed_count
  /\ pc' = "exited"
  /\ exit_status' = 0
  /\ UNCHANGED <<argv, disk, corrupt, files, idx, fixed_count, to_remove,
                 outcome, saved, run, disk0, prev_outcome>>

\* The same command line is run again.
Restart ==
  /\ pc = "exited"
  /\ run < MaxRuns
  /\ run' = run + 1
  /\ disk0' = disk
  /\ prev_outcome' = outcome
  /\ pc' = "main"
  /\ exit_status' = -1
  /\ files' = <<>>
  /\ idx' = 1
  /\ fixed_count' = 0
  /\ summary' = -1
  /\ to_remove' = [f \in Files |-> <<>>]
  /\ outcome' = [f \in Files |-> "none"]
  /\ saved' = {}
  /\ UNCHANGED <<argv, disk, corrupt>>

Next ==
  \/ MainUsage
  \/ MainBatch
  \/ MainBatchNoDirectory
  \/ MainSingle
  \/ BatchIteration
  \/ BatchSummary
  \/ Restart

Spec == Init /\ [][Next]_vars

\* The script runs to its end once started.
FairSpec ==
  Spec /\ WF_vars(MainUsage \/ MainBatch \/ MainBatchNoDirectory \/ MainSingle
                    \/ BatchIteration \/ BatchSummary)

TypeOK ==
  /\ pc \in {"main", "batch_loop", "exited"}
  /\ exit_status \in {-1, 0, 1}
  /\ (pc = "exited") = (exit_status # -1)
  /\ idx \in 1..(Len(files) + 1)
  /\ fixed_count \in 0..NumFiles
  /\ saved \subseteq Files
  /\ run \in 1..MaxRuns

(***************************************************************************)
(* Vocabulary of the properties, independent of the operators above.       *)
(***************************************************************************)
Range(q) == {q[i] : i \in 1..Len(q)}

ApplyMode == \E i \in 1..Len(argv) : argv[i] = "--apply"

\* --batch followed by a directory
BatchMode ==
  \E i \in 1..(Len(argv) - 1) :
    argv[i] = "--batch" /\ \A j \in 1..(i - 1) : argv[j] # "--batch"

Exited == pc = "exited"

IsCustom1(fr) == fr.id = "COMM" /\ fr.desc = "Songs-DB_Custom1"

\* The two removal rules, as the specification words them.
RuleRemove(fr) ==
  /\ fr.id = "COMM"
  /\ \/ fr.desc = "ID3v1 Comment" /\ fr.lang = "eng"
     \/ fr.desc = "" /\ fr.lang = "XXX"

KeyOf(fr) ==
  IF "desc" \in DOMAIN fr THEN <<fr.id, fr.desc, fr.lang>> ELSE <<fr.id>>

\* fix_comment_fields loaded file f and classified its frames in this run
Classified(f) == outcome[f] \in {"ok", "dry_run", "applied"} \/ f \in saved

(***************************************************************************)
(* C1.  In dry-run and in apply mode alike, no COMM frame with description *)
(* "Songs-DB_Custom1" is ever in the removal list, whatever its language   *)
(* and the other frames; the frame stays in the file's tag set, unchanged. *)
(***************************************************************************)
C1_Custom1Preserved ==
  \A f \in Files : \A fr \in Range(disk0[f]) :
    IsCustom1(fr) =>
      /\ KeyOf(fr) \notin Range(to_remove[f])
      /\ fr \in Range(disk[f])

C1_Witness ==
  \E f \in Files :
    /\ outcome[f] = "applied"
    /\ to_remove[f] # <<>>
    /\ \E fr \in Range(disk0[f]) : IsCustom1(fr) /\ fr.lang = "XXX"
    /\ \E fr \in Range(disk[f]) : IsCustom1(fr) /\ fr.lang = "eng"

(***************************************************************************)
(* C2.  The removal list of a call is exactly the keys of the COMM frames  *)
(* with (description "ID3v1 Comment", language "eng") or (description "",  *)
(* language "XXX"); after a successful apply none of them is in the file.  *)
(***************************************************************************)
C2_RemovedExactly ==
  \A f \in Files :
    /\ Classified(f) =>
         Range(to_remove[f]) = {KeyOf(fr) : fr \in {x \in Range(disk0[f]) : RuleRemove(x)}}
    /\ outcome[f] = "applied" => \A fr \in Range(disk[f]) : ~RuleRemove(fr)

C2_Witness ==
  \E f \in Files :
    /\ outcome[f] = "applied"
    /\ Len(to_remove[f]) = 2
    /\ \E fr \in Range(disk[f]) : fr.desc = "ID3v1 Comment"

(***************************************************************************)
(* C3.  Dry-run purity: without --apply no save is called and every file's *)
(* tag set is what it was when the run started, also when removable frames *)
(* were found and reported.                                                *)
(***************************************************************************)
C3_DryRunPure == ~ApplyMode => (saved = {} /\ disk = disk0)

C3_Witness ==
  /\ ~ApplyMode
  /\ Exited
  /\ \E f \in Files : outcome[f] = "dry_run" /\ to_remove[f] # <<>>

C5_NoOpWithoutSave ==
  \A f \in Files :
    (Classified(f) /\ \A fr \in Range(disk0[f]) : ~RuleRemove(fr)) =>
      /\ outcome[f] = "ok"
      /\ f \notin saved
      /\ disk[f] = disk0[f]

C5_Witness ==
  /\ ApplyMode
  /\ outcome[1] = "ok"
  /\ \E fr \in Range(disk0[1]) : fr.id = "COMM"

(***************************************************************************)
(* C6, safety part.  Batch failure isolation: a batch run never ends on an  *)
(* error (it ends with status 0 after its SUMMARY line); at its end every  *)
(* file that loads was examined, and in apply mode was cleaned unless its  *)
(* own save failed.                                                        *)
(***************************************************************************)
C6_Isolated ==
  (BatchMode /\ Exited) =>
    /\ exit_status = 0
    /\ summary # -1
    /\ \A i \in 1..Len(files) :
         LET f == files[i]
         IN  /\ outcome[f] # "none"
             /\ f \notin corrupt => outcome[f] # "skipped"
             /\ (ApplyMode /\ f \notin corrupt /\ outcome[f] # "error") =>
                  \A fr \in Range(disk[f]) : ~RuleRemove(fr)

\* C6: no batch run ever ends on an error or leaves a loadable file
\* unexamined, and a started loop always leads to the SUMMARY line.
C6_BatchFailureIsolation ==
  /\ [](C6_Isolated)
  /\ (pc = "batch_loop") ~> (Exited /\ summary # -1)

C6_Witness ==
  /\ BatchMode
  /\ ApplyMode
  /\ Exited
  /\ 1 \in corrupt
  /\ outcome[1] = "skipped"
  /\ \E f \in Files : outcome[f] = "applied"

(***************************************************************************)
(* C7, as stated.  The summary reports the number of files successfully    *)
(* processed (3 files, one that cannot be loaded: 2).                      *)
(***************************************************************************)
C7_SummaryAsStated ==
  (BatchMode /\ Exited) =>
    summary = Cardinality({f \in Range(files) : f \notin corrupt /\ outcome[f] # "error"})

(***************************************************************************)
(* C7, amended.  The summary reports one number, the number of files that  *)
(* loaded and held at least one removable frame ("files need fixing"); a   *)
(* file that failed to load is not in it.                                  *)
(***************************************************************************)
C7_Summary ==
  (BatchMode /\ Exited) =>
    summary = Cardinality({f \in Range(files) :
                 f \notin corrupt /\ \E fr \in Range(disk0[f]) : RuleRemove(fr)})

C7_Witness ==
  /\ BatchMode
  /\ Exited
  /\ Cardinality(corrupt) = 1
  /\ Len(files) = NumFiles
  /\ summary = 1
  /\ \E f \in Files : outcome[f] = "no_problem"

(***************************************************************************)
(* C8.  The process ends with status 1 exactly when a required argument is *)
(* missing: no argument at all, or --batch with nothing after it.          *)
(***************************************************************************)
MissingArgument ==
  \/ Len(argv) < 2
  \/ \E i \in 1..Len(argv) :
       /\ argv[i] = "--batch"
       /\ \A j \in 1..(i - 1) : argv[j] # "--batch"
       /\ i = Len(argv)

C8_ExitStatus == Exited => (exit_status = 1 <=> MissingArgument)

(***************************************************************************)
(* C9, as stated.  From {COMM::eng "dup", COMM:ID3v1 Comment:eng "legacy", *)
(* COMM:Songs-DB_Custom1:XXX "keep me"} an apply run leaves only the       *)
(* Songs-DB_Custom1 frame.                                                 *)
(***************************************************************************)
ScenarioDup    == [id |-> "COMM", desc |-> "", lang |-> "eng", text |-> <<"dup">>]
ScenarioLegacy == [id |-> "COMM", desc |-> "ID3v1 Comment", lang |-> "eng", text |-> <<"legacy">>]
ScenarioKeep   == [id |-> "COMM", desc |-> "Songs-DB_Custom1", lang |-> "XXX", text |-> <<"keep me">>]

ScenarioApplied(f) ==
  /\ Range(disk0[f]) = {ScenarioDup, ScenarioLegacy, ScenarioKeep}
  /\ outcome[f] = "applied"

C9_ScenarioAsStated ==
  \A f \in Files : ScenarioApplied(f) => Range(disk[f]) = {ScenarioKeep}

(***************************************************************************)
(* C9, amended.  From that tag set a successful apply run removes only     *)
(* COMM:ID3v1 Comment:eng; COMM::eng "dup" and the Songs-DB_Custom1 frame  *)
(* remain.                                                                 *)
(***************************************************************************)
C9_Scenario ==
  \A f \in Files :
    ScenarioApplied(f) =>
      /\ Range(disk[f]) = {ScenarioDup, ScenarioKeep}
      /\ to_remove[f] = <<KeyOf(ScenarioLegacy)>>

C9_Witness == ~BatchMode /\ ScenarioApplied(1)

(***************************************************************************)
(* C10.  An apply run changes a tag set by deletions only, and only of     *)
(* frames matching a removal rule: nothing is created or altered, every    *)
(* non-COMM frame and every COMM frame outside the two removal rules is    *)
(* still there, and after a successful apply the tag set is the loaded one *)
(* minus the frames of the removal list.                                   *)
(***************************************************************************)
C10_DeletionsOnly ==
  \A f \in Files :
    /\ Range(disk[f]) \subseteq Range(disk0[f])
    /\ \A fr \in Range(disk0[f]) : ~RuleRemove(fr) => fr \in Range(disk[f])
    /\ outcome[f] = "applied" =>
         Range(disk[f]) = {fr \in Range(disk0[f]) : KeyOf(fr) \notin Range(to_remove[f])}

C10_Witness ==
  \E f \in Files :
    /\ outcome[f] = "applied"
    /\ \E fr \in Range(disk[f]) : fr.id = "USLT"
    /\ \E fr \in Range(disk[f]) : fr.id = "COMM" /\ fr.desc = "" /\ fr.lang = "eng"
    /\ \E fr \in Range(disk[f]) : fr.id = "COMM" /\ fr.desc = "ID3v1 Comment" /\ fr.lang # "eng"
    /\ Range(disk[f]) # Range(disk0[f])

=============================================================================
